---------------------------- MODULE Spec2Model ----------------------------
(***************************************************************************)
(* werkroom (src/main.go): a terminal UI that loads GCP projects and VM    *)
(* instances, shows the instances as a two-level tree (instance groups and *)
(* instances), filters the tree by a typed query and hands the selected    *)
(* instance to `gcloud compute ssh`.                                       *)
(*                                                                         *)
(* Strings of the program are modelled as sequences of tokens.  A token is *)
(* one character ("w", "/", " ") or a word whose inside no operation of    *)
(* the program looks into ("instanceGroupManagers", "us-central1-a").      *)
(* nil pointers and nil errors are the empty sequence, a non-nil value v   *)
(* is <<v>>.                                                               *)
(***************************************************************************)
EXTENDS Integers, Sequences, FiniteSets, TLC

(***************************************************************************)
(* Bounds of the model.                                                    *)
(***************************************************************************)
\* longest filter query the keyboard is allowed to type
MaxFilterLen == 2
\* most commands in flight at a time (a load and a quit, or two quits)
MaxInFlight == 2

(***************************************************************************)
(* CONFIGURATION AND CONSTANTS (main.go 24-30)                             *)
(***************************************************************************)
DefaultWidth == 20
DefaultHeight == 14
MinHeight == 5
UIOverhead == 7

(***************************************************************************)
(* String primitives of the Go standard library, on token sequences.       *)
(***************************************************************************)
Last(s) == s[Len(s)]

\* strings.Contains
Contains(s, sub) ==
    \E i \in 0..(Len(s) - Len(sub)) : SubSeq(s, i + 1, i + Len(sub)) = sub

\* strings.Index, 1-based; 0 when sub does not occur
IndexOf(s, sub) ==
    IF Contains(s, sub)
    THEN CHOOSE i \in 1..(Len(s) - Len(sub) + 1) :
            /\ SubSeq(s, i, i + Len(sub) - 1) = sub
            /\ \A j \in 1..(i - 1) : SubSeq(s, j, j + Len(sub) - 1) # sub
    ELSE 0

\* strings.Split with a non-empty separator
RECURSIVE Split(_, _)
Split(s, sep) ==
    LET i == IndexOf(s, sep)
    IN  IF i = 0
        THEN <<s>>
        ELSE <<SubSeq(s, 1, i - 1)>> \o Split(SubSeq(s, i + Len(sep), Len(s)), sep)

\* unicode.ToLower of one character (the identity outside A-Z)
LowerChar(c) ==
    CASE c = "A" -> "a" [] c = "D" -> "d" [] c = "F" -> "f" [] c = "J" -> "j"
      [] c = "K" -> "k" [] c = "Q" -> "q" [] c = "U" -> "u" [] c = "W" -> "w"
      [] c = "X" -> "x" [] c = "Z" -> "z"
      [] OTHER -> c

\* strings.ToLower
ToLower(s) == [i \in 1..Len(s) |-> LowerChar(s[i])]

\* the byte value of a character, as far as the order of two strings needs it
ByteOf(c) ==
    CASE c = " " -> 32 [] c = "(" -> 40 [] c = ")" -> 41 [] c = "-" -> 45
      [] c = "/" -> 47 [] c = "1" -> 49 [] c = "2" -> 50 [] c = "3" -> 51
      [] c = "A" -> 65 [] c = "W" -> 87 [] c = "Z" -> 90 [] c = "_" -> 95
      [] c = "a" -> 97 [] c = "b" -> 98 [] c = "d" -> 100 [] c = "f" -> 102
      [] c = "p" -> 112 [] c = "q" -> 113 [] c = "u" -> 117 [] c = "w" -> 119 [] c = "x" -> 120
      [] c = "z" -> 122

\* a < b for Go strings (bytewise lexicographic order)
RECURSIVE StringLess(_, _)
StringLess(a, b) ==
    IF b = <<>> THEN FALSE
    ELSE IF a = <<>> THEN TRUE
    ELSE IF ByteOf(Head(a)) # ByteOf(Head(b)) THEN ByteOf(Head(a)) < ByteOf(Head(b))
    ELSE StringLess(Tail(a), Tail(b))

\* sort.Strings on the keys of a map: the keys in ascending order
RECURSIVE SortStrings(_)
SortStrings(S) ==
    IF S = {} THEN <<>>
    ELSE LET least == CHOOSE x \in S : \A y \in S \ {x} : StringLess(x, y)
         IN  <<least>> \o SortStrings(S \ {least})

\* fmt's %d for the small counts the model renders
FormatInt(n) ==
    CASE n = 0 -> "0" [] n = 1 -> "1" [] n = 2 -> "2" [] n = 3 -> "3"
      [] n = 4 -> "4" [] n = 5 -> "5" [] n = 6 -> "6" [] OTHER -> "many"

\* strings.Repeat
RECURSIVE Repeat(_, _)
Repeat(tok, n) == IF n <= 0 THEN <<>> ELSE <<tok>> \o Repeat(tok, n - 1)

\* the elements of a sequence
Range(s) == {s[i] : i \in 1..Len(s)}

(***************************************************************************)
(* DOMAIN MODELS                                                           *)
(***************************************************************************)
IGM == "instanceGroupManagers"

\* VM.GetInstanceGroup: the path segment after "instanceGroupManagers" in the
\* first created-by metadata value that has one.  A VM's Metadata field is
\* its item list; a nil Metadata or nil Items is the empty list.
GroupOfValue(value) ==
    LET parts == Split(value, <<"/">>)
        hits  == {i \in 1..Len(parts) : parts[i] = <<IGM>> /\ i + 1 <= Len(parts)}
    IN  IF hits = {} THEN <<>>
        ELSE <<parts[(CHOOSE i \in hits : \A j \in hits : i <= j) + 1]>>

RECURSIVE GroupOfItems(_)
GroupOfItems(items) ==
    IF items = <<>> THEN <<>>
    ELSE LET item == Head(items)
             found == IF item.Key = "created-by" /\ Contains(item.Value, <<IGM, "/">>)
                      THEN GroupOfValue(item.Value)
                      ELSE <<>>
         IN  IF found # <<>> THEN found[1] ELSE GroupOfItems(Tail(items))

GetInstanceGroup(vm) == GroupOfItems(vm.Metadata)

\* VMStatus.GetAbbreviation
GetAbbreviation(s) ==
    CASE s = "RUNNING" -> "R"
      [] s = "TERMINATED" -> "T"
      [] s = "PROVISIONING" -> "P"
      [] s = "STOPPING" -> "S"
      [] OTHER -> "?"

(***************************************************************************)
(* TREE DATA STRUCTURE                                                     *)
(***************************************************************************)
GroupNode == "GroupNode"
InstanceNode == "InstanceNode"

NewInstanceNode(vm, groupName, depth) ==
    [Type |-> InstanceNode, Name |-> vm.Name, VM |-> <<vm>>, GroupName |-> groupName,
     IsExpanded |-> FALSE, Children |-> <<>>, Depth |-> depth]

NewGroupNode(name, expanded, children, depth) ==
    [Type |-> GroupNode, Name |-> name, VM |-> <<>>, GroupName |-> name,
     IsExpanded |-> expanded, Children |-> children, Depth |-> depth]

\* BuildFromVMs putting the ungrouped instances before the Groups
BuildFromVMs_UngroupedFirst(vms) ==
    LET groupNames == SortStrings({GetInstanceGroup(vms[i]) : i \in 1..Len(vms)} \ {<<>>})
        members(g) == SelectSeq(vms, LAMBDA vm : GetInstanceGroup(vm) = g)
        ungrouped  == SelectSeq(vms, LAMBDA vm : GetInstanceGroup(vm) = <<>>)
        groupNode(g) ==
            NewGroupNode(g, FALSE,
                [k \in 1..Len(members(g)) |-> NewInstanceNode(members(g)[k], g, 1)], 0)
    IN  [k \in 1..Len(ungrouped) |-> NewInstanceNode(ungrouped[k], <<>>, 0)]
        \o [k \in 1..Len(groupNames) |-> groupNode(groupNames[k])]

\* TreeManager.BuildFromVMs: the new value of tm.nodes
BuildFromVMs(vms) ==
    LET groupNames == SortStrings({GetInstanceGroup(vms[i]) : i \in 1..Len(vms)} \ {<<>>})
        members(g) == SelectSeq(vms, LAMBDA vm : GetInstanceGroup(vm) = g)
        ungrouped  == SelectSeq(vms, LAMBDA vm : GetInstanceGroup(vm) = <<>>)
        groupNode(g) ==
            NewGroupNode(g, FALSE,
                [k \in 1..Len(members(g)) |-> NewInstanceNode(members(g)[k], g, 1)], 0)
    IN  [k \in 1..Len(groupNames) |-> groupNode(groupNames[k])]
        \o [k \in 1..Len(ungrouped) |-> NewInstanceNode(ungrouped[k], <<>>, 0)]

\* TreeManager.FlattenForDisplay, of the node list tm.nodes holds
RECURSIVE FlattenForDisplay(_)
FlattenForDisplay(nodes) ==
    IF nodes = <<>> THEN <<>>
    ELSE LET node == Head(nodes)
         IN  <<node>>
             \o (IF node.Type = GroupNode /\ node.IsExpanded THEN node.Children ELSE <<>>)
             \o FlattenForDisplay(Tail(nodes))

\* TreeManager.ToggleNode: the new value of tm.nodes
ToggleNode(nodes, targetNode) ==
    IF targetNode.Type # GroupNode THEN nodes
    ELSE LET hits == {i \in 1..Len(nodes) :
                        nodes[i].Type = GroupNode /\ nodes[i].Name = targetNode.Name}
         IN  IF hits = {} THEN nodes
             ELSE LET first == CHOOSE i \in hits : \A j \in hits : i <= j
                  IN  [nodes EXCEPT ![first].IsExpanded = ~nodes[first].IsExpanded]

\* TreeManager.RenderNode: the text of one row
RenderNode(node) ==
    LET indent == Repeat("  ", node.Depth)
    IN  IF node.Type = GroupNode
        THEN indent \o <<IF node.IsExpanded THEN "v" ELSE ">", " ">> \o node.Name
             \o <<" (", FormatInt(Len(node.Children)), " instances)">>
        ELSE indent \o <<"[" , GetAbbreviation(node.VM[1].Status), "]", " ">> \o node.Name

(***************************************************************************)
(* FILTERING SERVICE                                                       *)
(***************************************************************************)
NameMatches(node, filterLower) == Contains(ToLower(node.Name), filterLower)

\* Filter keeping only the matching children of a Group whose name matches
RECURSIVE FilterNodes_MatchingChildrenOnly(_, _)
FilterNodes_MatchingChildrenOnly(nodes, filterLower) ==
    IF nodes = <<>> THEN <<>>
    ELSE LET node == Head(nodes)
             matchingChildren == SelectSeq(node.Children, LAMBDA c : NameMatches(c, filterLower))
             kept ==
                IF node.Type = GroupNode
                THEN IF NameMatches(node, filterLower) \/ Len(matchingChildren) > 0
                     THEN <<[node EXCEPT !.IsExpanded = TRUE,
                                         !.Children = matchingChildren]>>
                     ELSE <<>>
                ELSE IF NameMatches(node, filterLower) THEN <<node>> ELSE <<>>
         IN  kept \o FilterNodes_MatchingChildrenOnly(Tail(nodes), filterLower)

\* Filter with that loop
Filter_MatchingChildrenOnly(nodes, filterText) ==
    IF filterText = <<>> THEN nodes
    ELSE FilterNodes_MatchingChildrenOnly(nodes, ToLower(filterText))

\* Filter flipping the expanded flag of a Group it keeps
RECURSIVE FilterNodes_FlipsExpanded(_, _)
FilterNodes_FlipsExpanded(nodes, filterLower) ==
    IF nodes = <<>> THEN <<>>
    ELSE LET node == Head(nodes)
             matchingChildren == SelectSeq(node.Children, LAMBDA c : NameMatches(c, filterLower))
             kept ==
                IF node.Type = GroupNode
                THEN IF NameMatches(node, filterLower)
                     THEN <<[node EXCEPT !.IsExpanded = ~node.IsExpanded]>>
                     ELSE IF Len(matchingChildren) > 0
                          THEN <<[node EXCEPT !.IsExpanded = ~node.IsExpanded,
                                              !.Children = matchingChildren]>>
                          ELSE <<>>
                ELSE IF NameMatches(node, filterLower) THEN <<node>> ELSE <<>>
         IN  kept \o FilterNodes_FlipsExpanded(Tail(nodes), filterLower)

Filter_FlipsExpanded(nodes, filterText) ==
    IF filterText = <<>> THEN nodes
    ELSE FilterNodes_FlipsExpanded(nodes, ToLower(filterText))

\* FilterService.Filter
RECURSIVE FilterNodes(_, _)
FilterNodes(nodes, filterLower) ==
    IF nodes = <<>> THEN <<>>
    ELSE LET node == Head(nodes)
             matchingChildren == SelectSeq(node.Children, LAMBDA c : NameMatches(c, filterLower))
             kept ==
                IF node.Type = GroupNode
                THEN IF NameMatches(node, filterLower)
                     THEN <<[node EXCEPT !.IsExpanded = TRUE]>>
                     ELSE IF Len(matchingChildren) > 0
                          THEN <<[node EXCEPT !.IsExpanded = TRUE,
                                              !.Children = matchingChildren]>>
                          ELSE <<>>
                ELSE IF NameMatches(node, filterLower) THEN <<node>> ELSE <<>>
         IN  kept \o FilterNodes(Tail(nodes), filterLower)

Filter(nodes, filterText) ==
    IF filterText = <<>> THEN nodes ELSE FilterNodes(nodes, ToLower(filterText))

(***************************************************************************)
(* The inventory `gcloud` answers with.  Project identifiers are made of   *)
(* lower-case letters, digits and hyphens; display names may hold spaces   *)
(* and parentheses.                                                        *)
(***************************************************************************)
P1 == <<"p", "1">>
P2 == <<"p", "2">>
P3 == <<"p", "3">>
\* a project identifier given on the command line that gcloud does not know
PUnknown == <<"x">>

ProjectListingA ==
    << [ProjectID |-> P1, Name |-> <<"A", " ", "(", "x", ")">>, Status |-> "ACTIVE"],
       [ProjectID |-> P2, Name |-> <<"b">>, Status |-> "DELETE_REQUESTED"],
       [ProjectID |-> P3, Name |-> <<"z">>, Status |-> "ACTIVE"] >>

ProjectListingB ==
    << [ProjectID |-> P2, Name |-> <<"b">>, Status |-> "DELETE_IN_PROGRESS"] >>

\* the JSON documents `gcloud projects list` may print
ProjectListings == {ProjectListingA, ProjectListingB}

CreatedBy(group) ==
    [Key |-> "created-by",
     Value |-> <<"projects", "/", "123", "/", "zones", "/", "us-central1-a", "/",
                 IGM, "/">> \o group]

ZoneA == <<"projects", "/", "p", "/", "zones", "/", "us-central1-a">>
ZoneB == <<"europe-west1-b">>

\* the end-to-end scenario of the documentation: two instances of one group
\* and one ungrouped instance
VMListingA ==
    << [Name |-> <<"q", "1">>, Zone |-> ZoneA, Status |-> "RUNNING",
        Metadata |-> <<[Key |-> "ssh-keys", Value |-> <<"u">>], CreatedBy(<<"q", "f">>)>>],
       [Name |-> <<"Q", "2">>, Zone |-> ZoneA, Status |-> "TERMINATED",
        Metadata |-> <<CreatedBy(<<"q", "f">>)>>],
       [Name |-> <<"d", "1">>, Zone |-> ZoneB, Status |-> "STAGING",
        Metadata |-> <<>>] >>

\* groups out of order, an ungrouped instance between them, and a created-by
\* value that names no instance group manager
VMListingB ==
    << [Name |-> <<"x", "1">>, Zone |-> ZoneA, Status |-> "STOPPING",
        Metadata |-> <<CreatedBy(<<"z">>)>>],
       [Name |-> <<"u", "1">>, Zone |-> ZoneB, Status |-> "PROVISIONING",
        Metadata |-> <<[Key |-> "created-by",
                        Value |-> <<"projects", "/", "123", "/", IGM>>]>>],
       [Name |-> <<"x", "2">>, Zone |-> ZoneA, Status |-> "RUNNING",
        Metadata |-> <<CreatedBy(<<"a">>)>>] >>

\* the JSON documents `gcloud compute instances list --project p` may print
VMListings(project) ==
    CASE project = P1 -> {VMListingA}
      [] project = P3 -> {VMListingB, <<>>}
      [] OTHER -> {}

\* the values of the -project flag
ProjectFlags == {<<>>, P1, PUnknown}

(***************************************************************************)
(* GCP SERVICE and MESSAGES                                                *)
(***************************************************************************)
ProjectsLoadedMsg(projects) == [type |-> "ProjectsLoadedMsg", Projects |-> projects]
VMsLoadedMsg(vms) == [type |-> "VMsLoadedMsg", VMs |-> vms]
ErrorMsg(err) == [type |-> "ErrorMsg", Err |-> <<err>>]
KeyMsg(keypress, page) == [type |-> "KeyMsg", key |-> keypress, page |-> page]
WindowSizeMsg(width, height) == [type |-> "WindowSizeMsg", Width |-> width, Height |-> height]

\* the commands Update hands to the runtime
QuitCmd == [kind |-> "Quit", project |-> <<>>]
LoadProjectsCmd == [kind |-> "LoadProjects", project |-> <<>>]
LoadVMsCmd(project) == [kind |-> "LoadVMs", project |-> project]

\* what running gcloud comes to: the process fails, prints what is no JSON
\* list, or prints a listing
ExecFailed == [failure |-> "exec", listing |-> <<>>]
ParseFailed == [failure |-> "parse", listing |-> <<>>]
Printed(listing) == [failure |-> "none", listing |-> listing]

\* LoadProjects keeping every project that is not being deleted
LoadProjects_NotDeleted(output) ==
    IF output.failure = "exec" THEN ErrorMsg("failed to list projects")
    ELSE IF output.failure = "parse" THEN ErrorMsg("failed to parse project data")
    ELSE ProjectsLoadedMsg(SelectSeq(output.listing,
                                     LAMBDA project : project.Status # "DELETE_IN_PROGRESS"))

\* GCPService.LoadProjects: the message the command comes back with
LoadProjects(output) ==
    IF output.failure = "exec" THEN ErrorMsg("failed to list projects")
    ELSE IF output.failure = "parse" THEN ErrorMsg("failed to parse project data")
    ELSE ProjectsLoadedMsg(SelectSeq(output.listing, LAMBDA project : project.Status = "ACTIVE"))

\* GCPService.LoadVMs: the message the command comes back with
LoadVMs(output) ==
    IF output.failure = "exec" THEN ErrorMsg("failed to list VMs")
    ELSE IF output.failure = "parse" THEN ErrorMsg("failed to parse VM data")
    ELSE VMsLoadedMsg(output.listing)

\* GCPService.ConnectSSH: the argument vector of the exec, or the error when
\* gcloud is not on the PATH or the exec fails
ConnectSSH(project, vmName, zone, launcher) ==
    LET zoneName == Last(Split(zone, <<"/">>))
        args == <<<<"gcloud">>, <<"compute">>, <<"ssh">>, vmName,
                  <<"--project">>, project, <<"--zone">>, zoneName>>
    IN  IF launcher = "not found" THEN [exec |-> <<>>, err |-> <<"gcloud not found in PATH">>]
        ELSE IF launcher = "exec fails" THEN [exec |-> <<>>, err |-> <<"exec failed">>]
        ELSE [exec |-> args, err |-> <<>>]

(***************************************************************************)
(* APPLICATION STATE                                                       *)
(***************************************************************************)
StateLoadingProjects == "StateLoadingProjects"
StateSelectingProject == "StateSelectingProject"
StateLoadingVMs == "StateLoadingVMs"
StateSelectingVM == "StateSelectingVM"
StateReadyToConnect == "StateReadyToConnect"
StateQuitting == "StateQuitting"

AppStates ==
    {StateLoadingProjects, StateSelectingProject, StateLoadingVMs, StateSelectingVM,
     StateReadyToConnect, StateQuitting}

(***************************************************************************)
(* The list component (bubbles/list) as far as the program uses it: its    *)
(* items, the index of the highlighted row (0-based), width, height and    *)
(* title.  SetItems keeps the index, so the index may lie past the last    *)
(* row; SelectedItem and getCurrentNode both answer nil then.              *)
(***************************************************************************)
ListNew(items, width, height, title) ==
    [items |-> items, index |-> 0, width |-> width, height |-> height, title |-> title]

SetItems(l, items) == [l EXCEPT !.items = items]

\* list.SelectedItem: <<>> or <<the highlighted item>>
SelectedItem(l) ==
    IF l.index < 0 \/ Len(l.items) = 0 \/ Len(l.items) <= l.index
    THEN <<>>
    ELSE <<l.items[l.index + 1]>>

NavigationKeys == {"up", "k", "down", "j", "pgup", "pgdown", "home", "end"}

LastRow(l) == IF Len(l.items) = 0 THEN 0 ELSE Len(l.items) - 1

\* list.Update on a navigation key.  A page key moves to the row `page`, which
\* the caller draws from the rows before (pgup) or after (pgdown) the index:
\* how many rows a page holds depends on the layout of the terminal.
ListUpdate(l, keypress, page) ==
    CASE keypress \in {"up", "k"} ->
            [l EXCEPT !.index = IF l.index > 0 THEN l.index - 1 ELSE 0]
      [] keypress \in {"down", "j"} ->
            [l EXCEPT !.index = IF l.index + 1 < Len(l.items) THEN l.index + 1
                                ELSE IF l.index + 1 > Len(l.items) THEN 0
                                ELSE LastRow(l)]
      [] keypress = "home" -> [l EXCEPT !.index = 0]
      [] keypress = "end" -> [l EXCEPT !.index = LastRow(l)]
      [] keypress \in {"pgup", "pgdown"} -> [l EXCEPT !.index = page]
      [] OTHER -> l

\* the rows a page key may move to
PageTargets(l, keypress) ==
    CASE keypress = "pgup" -> {i \in 0..LastRow(l) : i <= l.index} \cup {l.index}
      [] keypress = "pgdown" -> {i \in 0..LastRow(l) : i >= l.index} \cup {l.index}
      [] OTHER -> {0}

(***************************************************************************)
(* BUBBLE TEA MODEL                                                        *)
(***************************************************************************)
\* the row of a project: fmt.Sprintf("%s (%s)", project.ProjectID, project.Name)
ProjectItem(project) == project.ProjectID \o <<" ", "(">> \o project.Name \o <<")">>

ProjectItems(projects) == [i \in 1..Len(projects) |-> ProjectItem(projects[i])]

\* newModel
newModel(project) ==
    [state |-> IF project # <<>> THEN StateLoadingVMs ELSE StateLoadingProjects,
     quitting |-> FALSE,
     treeManager |-> <<>>,
     projects |-> <<>>,
     selectedProject |-> project,
     selectedVM |-> <<>>,
     err |-> <<>>,
     list |-> ListNew(<<>>, DefaultWidth, DefaultHeight,
                     IF project # <<>> THEN <<"Loading VMs...">>
                     ELSE <<"Loading GCP Projects...">>),
     currentlyDisplayedNodes |-> <<>>,
     filtering |-> FALSE,
     filterText |-> <<>>]

\* model.getCurrentNode: <<>> or <<the node of the highlighted row>>
getCurrentNode(m) ==
    IF m.list.index < 0 \/ Len(m.currentlyDisplayedNodes) = 0 THEN <<>>
    ELSE IF m.list.index >= Len(m.currentlyDisplayedNodes) THEN <<>>
    ELSE <<m.currentlyDisplayedNodes[m.list.index + 1]>>

\* updateVMList refreshing the node cache but not the rows of the list
updateVMList_StaleRows(m) ==
    LET nodesToShow == IF m.filtering /\ m.filterText # <<>>
                       THEN Filter(m.treeManager, m.filterText)
                       ELSE m.treeManager
        flatNodes == FlattenForDisplay(nodesToShow)
        baseTitle == <<"Sunrise Parabellum\nSelect VM from project: ">> \o m.selectedProject
    IN  [m EXCEPT
            !.currentlyDisplayedNodes = flatNodes,
            !.list.title = IF m.filtering
                           THEN baseTitle \o <<"\n", "Filter:", " ">> \o m.filterText
                           ELSE baseTitle]

\* updateVMList leaving the nodes it displays in the tree manager
updateVMList_NoRestore(m) ==
    LET nodesToShow == IF m.filtering /\ m.filterText # <<>>
                       THEN Filter(m.treeManager, m.filterText)
                       ELSE m.treeManager
        flatNodes == FlattenForDisplay(nodesToShow)
        baseTitle == <<"Sunrise Parabellum\nSelect VM from project: ">> \o m.selectedProject
    IN  [m EXCEPT
            !.treeManager = nodesToShow,
            !.currentlyDisplayedNodes = flatNodes,
            !.list = [SetItems(m.list, [i \in 1..Len(flatNodes) |-> RenderNode(flatNodes[i])])
                        EXCEPT !.title = IF m.filtering
                                         THEN baseTitle \o <<"\n", "Filter:", " ">> \o m.filterText
                                         ELSE baseTitle]]

\* model.updateVMList.  The tree manager holds nodesToShow while it flattens
\* them and gets its own nodes back afterwards.
updateVMList(m) ==
    LET nodesToShow == IF m.filtering /\ m.filterText # <<>>
                       THEN Filter(m.treeManager, m.filterText)
                       ELSE m.treeManager
        originalNodes == m.treeManager
        flatNodes == FlattenForDisplay(nodesToShow)
        baseTitle == <<"Sunrise Parabellum\nSelect VM from project: ">> \o m.selectedProject
    IN  [m EXCEPT
            !.treeManager = originalNodes,
            !.currentlyDisplayedNodes = flatNodes,
            !.list = [SetItems(m.list, [i \in 1..Len(flatNodes) |-> RenderNode(flatNodes[i])])
                        EXCEPT !.title = IF m.filtering
                                         THEN baseTitle \o <<"\n", "Filter:", " ">> \o m.filterText
                                         ELSE baseTitle]]

\* model.Init: the command the program starts with
InitCmd(m) ==
    IF m.selectedProject # <<>> /\ m.state = StateLoadingVMs
    THEN <<LoadVMsCmd(m.selectedProject)>>
    ELSE IF m.state = StateLoadingProjects THEN <<LoadProjectsCmd>>
    ELSE <<>>

\* what a handler returns: the next model and the command, <<>> for nil
Return(m, cmd) == [m |-> m, cmd |-> cmd]

\* isValidFilterChar
isValidFilterChar(c) ==
    \/ c \in {"a", "b", "c", "d", "e", "f", "g", "h", "i", "j", "k", "l", "m",
              "n", "o", "p", "q", "r", "s", "t", "u", "v", "w", "x", "y", "z"}
    \/ c \in {"A", "B", "C", "D", "E", "F", "G", "H", "I", "J", "K", "L", "M",
              "N", "O", "P", "Q", "R", "S", "T", "U", "V", "W", "X", "Y", "Z"}
    \/ c \in {"0", "1", "2", "3", "4", "5", "6", "7", "8", "9"}
    \/ c = "-" \/ c = "_" \/ c = " "

\* the key names of one byte: len(keypress) == 1
SingleByteKeys ==
    {"j", "k", "q", "Q", "1", "-", "_", " ", "/", "!"}

\* the toggle of handleFilteringInput flipping the node of the filtered view
\* it was handed, the canonical nodes staying as they are
ToggleOriginal_FilteredCopy(nodes, currentNode) ==
    LET hits == {i \in 1..Len(nodes) : nodes[i] = currentNode}
    IN  IF hits = {} THEN nodes
        ELSE LET first == CHOOSE i \in hits : \A j \in hits : i <= j
             IN  [nodes EXCEPT ![first].IsExpanded = ~nodes[first].IsExpanded]

\* toggling the canonical group of the name of currentNode, as written out in
\* handleFilteringInput
ToggleOriginal(nodes, currentNode) ==
    LET hits == {i \in 1..Len(nodes) :
                    nodes[i].Type = GroupNode /\ nodes[i].Name = currentNode.Name}
    IN  IF hits = {} THEN nodes
        ELSE LET first == CHOOSE i \in hits : \A j \in hits : i <= j
             IN  [nodes EXCEPT ![first].IsExpanded = ~nodes[first].IsExpanded]

\* handleFilteringInput resolving the row of enter against the unfiltered
\* projection
handleFilteringInput_UnfilteredRow(m, keypress) ==
    CASE keypress = "esc" ->
            Return(updateVMList([m EXCEPT !.filtering = FALSE, !.filterText = <<>>]), <<>>)
      [] keypress \in {"backspace", "ctrl+h"} ->
            IF Len(m.filterText) > 0
            THEN Return(updateVMList(
                    [m EXCEPT !.filterText = SubSeq(m.filterText, 1, Len(m.filterText) - 1)]),
                    <<>>)
            ELSE Return(m, <<>>)
      [] keypress = "enter" ->
            LET currentNode ==
                    getCurrentNode([m EXCEPT !.currentlyDisplayedNodes =
                                                FlattenForDisplay(m.treeManager)])
            IN  IF currentNode = <<>> THEN Return(m, <<>>)
                ELSE IF currentNode[1].Type = InstanceNode
                THEN Return([m EXCEPT !.selectedVM = currentNode[1].VM,
                                      !.state = StateReadyToConnect], <<QuitCmd>>)
                ELSE Return(updateVMList(
                        [m EXCEPT !.treeManager = ToggleOriginal(m.treeManager, currentNode[1])]),
                        <<>>)
      [] OTHER ->
            IF keypress \in SingleByteKeys /\ isValidFilterChar(keypress)
            THEN Return(updateVMList([m EXCEPT !.filterText = m.filterText \o <<keypress>>]),
                        <<>>)
            ELSE Return(m, <<>>)

\* handleFilteringInput whose esc leaves the filtered view on display
handleFilteringInput_EscKeepsView(m, keypress) ==
    CASE keypress = "esc" ->
            Return([m EXCEPT !.filtering = FALSE, !.filterText = <<>>], <<>>)
      [] keypress \in {"backspace", "ctrl+h"} ->
            IF Len(m.filterText) > 0
            THEN Return(updateVMList(
                    [m EXCEPT !.filterText = SubSeq(m.filterText, 1, Len(m.filterText) - 1)]),
                    <<>>)
            ELSE Return(m, <<>>)
      [] keypress = "enter" ->
            LET currentNode == getCurrentNode(m)
            IN  IF currentNode = <<>> THEN Return(m, <<>>)
                ELSE IF currentNode[1].Type = InstanceNode
                THEN Return([m EXCEPT !.selectedVM = currentNode[1].VM,
                                      !.state = StateReadyToConnect], <<QuitCmd>>)
                ELSE Return(updateVMList(
                        [m EXCEPT !.treeManager = ToggleOriginal(m.treeManager, currentNode[1])]),
                        <<>>)
      [] OTHER ->
            IF keypress \in SingleByteKeys /\ isValidFilterChar(keypress)
            THEN Return(updateVMList([m EXCEPT !.filterText = m.filterText \o <<keypress>>]),
                        <<>>)
            ELSE Return(m, <<>>)

\* model.handleFilteringInput
handleFilteringInput(m, keypress) ==
    CASE keypress = "esc" ->
            Return(updateVMList([m EXCEPT !.filtering = FALSE, !.filterText = <<>>]), <<>>)
      [] keypress \in {"backspace", "ctrl+h"} ->
            IF Len(m.filterText) > 0
            THEN Return(updateVMList(
                    [m EXCEPT !.filterText = SubSeq(m.filterText, 1, Len(m.filterText) - 1)]),
                    <<>>)
            ELSE Return(m, <<>>)
      [] keypress = "enter" ->
            LET currentNode == getCurrentNode(m)
            IN  IF currentNode = <<>> THEN Return(m, <<>>)
                ELSE IF currentNode[1].Type = InstanceNode
                THEN Return([m EXCEPT !.selectedVM = currentNode[1].VM,
                                      !.state = StateReadyToConnect], <<QuitCmd>>)
                ELSE Return(updateVMList(
                        [m EXCEPT !.treeManager = ToggleOriginal(m.treeManager, currentNode[1])]),
                        <<>>)
      [] OTHER ->
            IF keypress \in SingleByteKeys /\ isValidFilterChar(keypress)
            THEN Return(updateVMList([m EXCEPT !.filterText = m.filterText \o <<keypress>>]),
                        <<>>)
            ELSE Return(m, <<>>)

\* model.shouldHandleNavigation
shouldHandleNavigation(m, keypress) ==
    IF m.state # StateSelectingProject /\ m.state # StateSelectingVM THEN FALSE
    ELSE keypress \in {"up", "k", "down", "j", "pgup", "pgdown", "home", "end"}

\* model.handleEnterOnVM
handleEnterOnVM(m) ==
    LET currentNode == getCurrentNode(m)
    IN  IF currentNode = <<>> THEN Return(m, <<>>)
        ELSE IF currentNode[1].Type = GroupNode
        THEN Return(updateVMList(
                [m EXCEPT !.treeManager = ToggleNode(m.treeManager, currentNode[1])]), <<>>)
        ELSE Return([m EXCEPT !.selectedVM = currentNode[1].VM,
                              !.state = StateReadyToConnect], <<QuitCmd>>)

\* goBackToProjectSelection going back to the wrong state
goBackToProjectSelection_WrongState(m) ==
    Return([m EXCEPT !.list = [SetItems(m.list, ProjectItems(m.projects))
                                  EXCEPT !.title = <<"Select GCP Project">>],
                     !.state = StateLoadingProjects,
                     !.currentlyDisplayedNodes = <<>>], <<>>)

\* goBackToProjectSelection leaving the displayed nodes in place
goBackToProjectSelection_KeepsNodes(m) ==
    Return([m EXCEPT !.list = [SetItems(m.list, ProjectItems(m.projects))
                                  EXCEPT !.title = <<"Select GCP Project">>],
                     !.state = StateSelectingProject], <<>>)

\* model.goBackToProjectSelection
goBackToProjectSelection(m) ==
    Return([m EXCEPT !.list = [SetItems(m.list, ProjectItems(m.projects))
                                  EXCEPT !.title = <<"Select GCP Project">>],
                     !.state = StateSelectingProject,
                     !.currentlyDisplayedNodes = <<>>], <<>>)

\* the toggle of right, left and space: ToggleNode and updateVMList
ToggleCurrent(m, currentNode) ==
    Return(updateVMList([m EXCEPT !.treeManager = ToggleNode(m.treeManager, currentNode)]),
           <<>>)

\* handleVMSelection whose right flips the Group whatever its state
handleVMSelection_RightToggles(m, keypress) ==
    LET currentNode == getCurrentNode(m)
    IN  CASE keypress = "right" ->
                IF currentNode # <<>> /\ currentNode[1].Type = GroupNode
                THEN ToggleCurrent(m, currentNode[1]) ELSE Return(m, <<>>)
          [] keypress = "left" ->
                IF currentNode # <<>> /\ currentNode[1].Type = GroupNode
                   /\ currentNode[1].IsExpanded
                THEN ToggleCurrent(m, currentNode[1]) ELSE Return(m, <<>>)
          [] keypress = "space" ->
                IF currentNode # <<>> /\ currentNode[1].Type = GroupNode
                THEN ToggleCurrent(m, currentNode[1]) ELSE Return(m, <<>>)
          [] keypress = "enter" -> handleEnterOnVM(m)
          [] keypress = "/" ->
                IF ~m.filtering
                THEN Return(updateVMList([m EXCEPT !.filtering = TRUE, !.filterText = <<>>]),
                            <<>>)
                ELSE Return(m, <<>>)
          [] keypress = "esc" -> goBackToProjectSelection(m)
          [] keypress = "q" -> Return([m EXCEPT !.quitting = TRUE], <<QuitCmd>>)
          [] OTHER -> Return(m, <<>>)

\* model.handleVMSelection
handleVMSelection(m, keypress) ==
    LET currentNode == getCurrentNode(m)
    IN  CASE keypress = "right" ->
                IF currentNode # <<>> /\ currentNode[1].Type = GroupNode
                   /\ ~currentNode[1].IsExpanded
                THEN ToggleCurrent(m, currentNode[1]) ELSE Return(m, <<>>)
          [] keypress = "left" ->
                IF currentNode # <<>> /\ currentNode[1].Type = GroupNode
                   /\ currentNode[1].IsExpanded
                THEN ToggleCurrent(m, currentNode[1]) ELSE Return(m, <<>>)
          [] keypress = "space" ->
                IF currentNode # <<>> /\ currentNode[1].Type = GroupNode
                THEN ToggleCurrent(m, currentNode[1]) ELSE Return(m, <<>>)
          [] keypress = "enter" -> handleEnterOnVM(m)
          [] keypress = "/" ->
                IF ~m.filtering
                THEN Return(updateVMList([m EXCEPT !.filtering = TRUE, !.filterText = <<>>]),
                            <<>>)
                ELSE Return(m, <<>>)
          [] keypress = "esc" -> goBackToProjectSelection(m)
          [] keypress = "q" -> Return([m EXCEPT !.quitting = TRUE], <<QuitCmd>>)
          [] OTHER -> Return(m, <<>>)

\* handleGlobalKeys taking the whole row text for the project identifier
handleGlobalKeys_NoSplit(m, keypress) ==
    CASE keypress = "ctrl+c" -> Return([m EXCEPT !.quitting = TRUE], <<QuitCmd>>)
      [] keypress = "q" ->
            IF m.state = StateSelectingProject \/ m.state = StateLoadingProjects
            THEN Return([m EXCEPT !.quitting = TRUE], <<QuitCmd>>)
            ELSE Return(m, <<>>)
      [] keypress = "enter" ->
            IF m.state = StateSelectingProject /\ SelectedItem(m.list) # <<>>
            THEN LET projectID == SelectedItem(m.list)[1]
                 IN  Return([m EXCEPT !.selectedProject = projectID,
                                      !.state = StateLoadingVMs,
                                      !.list.title = <<"Loading VMs...">>],
                            <<LoadVMsCmd(projectID)>>)
            ELSE Return(m, <<>>)
      [] OTHER -> Return(m, <<>>)

\* handleGlobalKeys taking enter on a project row in every state
handleGlobalKeys_EnterWhileLoading(m, keypress) ==
    CASE keypress = "ctrl+c" -> Return([m EXCEPT !.quitting = TRUE], <<QuitCmd>>)
      [] keypress = "q" ->
            IF m.state = StateSelectingProject \/ m.state = StateLoadingProjects
            THEN Return([m EXCEPT !.quitting = TRUE], <<QuitCmd>>)
            ELSE Return(m, <<>>)
      [] keypress = "enter" ->
            IF SelectedItem(m.list) # <<>>
            THEN LET projectDisplay == SelectedItem(m.list)[1]
                     projectID == Split(projectDisplay, <<" ", "(">>)[1]
                 IN  Return([m EXCEPT !.selectedProject = projectID,
                                      !.state = StateLoadingVMs,
                                      !.list.title = <<"Loading VMs...">>],
                            <<LoadVMsCmd(projectID)>>)
            ELSE Return(m, <<>>)
      [] OTHER -> Return(m, <<>>)

\* mutant of handleGlobalKeys: enter requests the load of the chosen project
\* and leaves m.selectedProject as it was
handleGlobalKeys_KeepsSelectedProject(m, keypress) ==
    CASE keypress = "ctrl+c" -> Return([m EXCEPT !.quitting = TRUE], <<QuitCmd>>)
      [] keypress = "q" ->
            IF m.state = StateSelectingProject \/ m.state = StateLoadingProjects
            THEN Return([m EXCEPT !.quitting = TRUE], <<QuitCmd>>)
            ELSE Return(m, <<>>)
      [] keypress = "enter" ->
            IF m.state = StateSelectingProject /\ SelectedItem(m.list) # <<>>
            THEN LET projectDisplay == SelectedItem(m.list)[1]
                     projectID == Split(projectDisplay, <<" ", "(">>)[1]
                 IN  Return([m EXCEPT !.state = StateLoadingVMs,
                                      !.list.title = <<"Loading VMs...">>],
                            <<LoadVMsCmd(projectID)>>)
            ELSE Return(m, <<>>)
      [] OTHER -> Return(m, <<>>)

\* model.handleGlobalKeys
handleGlobalKeys(m, keypress) ==
    CASE keypress = "ctrl+c" -> Return([m EXCEPT !.quitting = TRUE], <<QuitCmd>>)
      [] keypress = "q" ->
            IF m.state = StateSelectingProject \/ m.state = StateLoadingProjects
            THEN Return([m EXCEPT !.quitting = TRUE], <<QuitCmd>>)
            ELSE Return(m, <<>>)
      [] keypress = "enter" ->
            IF m.state = StateSelectingProject /\ SelectedItem(m.list) # <<>>
            THEN LET projectDisplay == SelectedItem(m.list)[1]
                     projectID == Split(projectDisplay, <<" ", "(">>)[1]
                 IN  Return([m EXCEPT !.selectedProject = projectID,
                                      !.state = StateLoadingVMs,
                                      !.list.title = <<"Loading VMs...">>],
                            <<LoadVMsCmd(projectID)>>)
            ELSE Return(m, <<>>)
      [] OTHER -> Return(m, <<>>)

\* model.handleKeyPress
handleKeyPress(m, keypress) ==
    IF m.state = StateSelectingVM /\ m.filtering THEN handleFilteringInput(m, keypress)
    ELSE IF m.state = StateSelectingVM THEN handleVMSelection(m, keypress)
    ELSE handleGlobalKeys(m, keypress)

\* the WindowSizeMsg case without the minimum height
UpdateWindowSizeMsg_NoMinimum(m, msg) ==
    Return([m EXCEPT !.list.width = msg.Width, !.list.height = msg.Height - UIOverhead], <<>>)

\* model.Update, case tea.WindowSizeMsg
UpdateWindowSizeMsg(m, msg) ==
    LET availableHeight == IF msg.Height - UIOverhead < MinHeight
                           THEN MinHeight ELSE msg.Height - UIOverhead
    IN  Return([m EXCEPT !.list.width = msg.Width, !.list.height = availableHeight], <<>>)

\* model.Update, case tea.KeyMsg, a key shouldHandleNavigation passes to the list
UpdateNavigationKey(m, msg) ==
    Return([m EXCEPT !.list = ListUpdate(m.list, msg.key, msg.page)], <<>>)

\* model.Update, case ProjectsLoadedMsg
UpdateProjectsLoadedMsg(m, msg) ==
    Return([m EXCEPT !.projects = msg.Projects,
                     !.state = StateSelectingProject,
                     !.list = [SetItems(m.list, ProjectItems(msg.Projects))
                                  EXCEPT !.title = <<"Select GCP Project">>]], <<>>)

\* the VMsLoadedMsg case building the hierarchy only when there is none yet
UpdateVMsLoadedMsg_KeepsTree(m, msg) ==
    Return(updateVMList([m EXCEPT !.state = StateSelectingVM,
                                  !.filtering = FALSE,
                                  !.filterText = <<>>,
                                  !.treeManager = IF m.treeManager = <<>>
                                                  THEN BuildFromVMs(msg.VMs)
                                                  ELSE m.treeManager]), <<>>)

\* model.Update, case VMsLoadedMsg
UpdateVMsLoadedMsg(m, msg) ==
    Return(updateVMList([m EXCEPT !.state = StateSelectingVM,
                                  !.filtering = FALSE,
                                  !.filterText = <<>>,
                                  !.treeManager = BuildFromVMs(msg.VMs)]), <<>>)

\* the ErrorMsg case falling back to the project selection
UpdateErrorMsg_BackToSelection(m, msg) ==
    Return([m EXCEPT !.err = msg.Err, !.state = StateSelectingProject], <<>>)

\* model.Update, case ErrorMsg
UpdateErrorMsg(m, msg) == Return([m EXCEPT !.err = msg.Err], <<>>)

\* model.Update
Update(m, msg) ==
    CASE msg.type = "WindowSizeMsg" -> UpdateWindowSizeMsg(m, msg)
      [] msg.type = "KeyMsg" ->
            IF shouldHandleNavigation(m, msg.key)
            THEN UpdateNavigationKey(m, msg)
            ELSE handleKeyPress(m, msg.key)
      [] msg.type = "ProjectsLoadedMsg" -> UpdateProjectsLoadedMsg(m, msg)
      [] msg.type = "VMsLoadedMsg" -> UpdateVMsLoadedMsg(m, msg)
      [] msg.type = "ErrorMsg" -> UpdateErrorMsg(m, msg)
      [] OTHER -> Return(m, <<>>)

\* model.View: which screen is drawn, and the text it shows
View(m) ==
    IF m.quitting THEN [screen |-> "Goodbye!", text |-> <<>>]
    ELSE IF m.state = StateLoadingProjects
    THEN [screen |-> "Loading GCP projects...", text |-> <<>>]
    ELSE IF m.state = StateLoadingVMs
    THEN [screen |-> "Loading VMs for project", text |-> m.selectedProject]
    ELSE IF m.state = StateReadyToConnect
    THEN [screen |-> "Connecting to", text |-> m.selectedVM[1].Name]
    ELSE IF m.err # <<>>
    THEN [screen |-> "Error", text |-> m.err \o <<"Press 'q' to quit.">>]
    ELSE [screen |-> "list",
          text |-> IF m.state = StateSelectingProject
                   THEN <<"Press Enter to select, 'q' to quit">>
                   ELSE IF m.state = StateSelectingVM
                   THEN IF m.filtering
                        THEN <<"Press Enter to connect, Backspace to edit, Esc to clear filter, 'q' to quit">>
                        ELSE <<"Press Enter to select/expand, -> to expand, <- to collapse, Space to toggle, '/' to filter, Esc to go back, 'q' to quit">>
                   ELSE <<>>]

(***************************************************************************)
(* MAIN APPLICATION: the program as a state machine.                       *)
(*                                                                         *)
(* program.Run() feeds Update one message at a time: key presses, window   *)
(* sizes and the messages the commands in flight come back with.  A        *)
(* command runs beside the loop, so other messages may be handled between  *)
(* the Update that returned it and the arrival of its message; that holds  *)
(* for tea.Quit too, whose message ends the loop.                          *)
(***************************************************************************)
VARIABLES
    m,        \* the model value the event loop holds
    cmds,     \* the commands in flight
    pc,       \* where main is: "Run", "handleSSHConnection" or "exit"
    outcome   \* how the process ends: the exec it made and its exit code

vars == <<m, cmds, pc, outcome>>

\* the key names the keyboard sends; the space bar is the key " "
Keys ==
    NavigationKeys \cup SingleByteKeys
    \cup {"right", "left", "enter", "esc", "ctrl+c", "backspace", "ctrl+h", "tab"}

\* the window sizes the terminal reports
WindowSizes == {[Width |-> 80, Height |-> 24], [Width |-> 40, Height |-> 10]}

Remove(s, i) == SubSeq(s, 1, i - 1) \o SubSeq(s, i + 1, Len(s))

Init ==
    \E project \in ProjectFlags :
        /\ m = newModel(project)
        /\ cmds = InitCmd(newModel(project))
        /\ pc = "Run"
        /\ outcome = [exec |-> <<>>, code |-> 0]

\* one turn of the event loop: Update has returned r, whose command goes in
\* flight beside the commands `rest` that stay in flight
Turn(r, rest) ==
    /\ pc = "Run"
    /\ Len(rest) + Len(r.cmd) <= MaxInFlight
    /\ Len(r.m.filterText) <= MaxFilterLen
    /\ m' = r.m
    /\ cmds' = rest \o r.cmd
    /\ UNCHANGED <<pc, outcome>>

\* the terminal reports its size
WindowSize ==
    \E size \in WindowSizes :
        Turn(UpdateWindowSizeMsg(m, WindowSizeMsg(size.Width, size.Height)), cmds)

\* a key Update passes to the list
KeyNavigation ==
    \E keypress \in Keys :
        /\ shouldHandleNavigation(m, keypress)
        /\ \E page \in PageTargets(m.list, keypress) :
              Turn(UpdateNavigationKey(m, KeyMsg(keypress, page)), cmds)

\* a key handleKeyPress passes to handleFilteringInput
KeyFiltering ==
    \E keypress \in Keys :
        /\ ~shouldHandleNavigation(m, keypress)
        /\ m.state = StateSelectingVM /\ m.filtering
        /\ Turn(handleFilteringInput(m, keypress), cmds)

\* a key handleKeyPress passes to handleVMSelection
KeyVMSelection ==
    \E keypress \in Keys :
        /\ ~shouldHandleNavigation(m, keypress)
        /\ ~(m.state = StateSelectingVM /\ m.filtering)
        /\ m.state = StateSelectingVM
        /\ Turn(handleVMSelection(m, keypress), cmds)

\* a key handleKeyPress passes to handleGlobalKeys
KeyGlobal ==
    \E keypress \in Keys :
        /\ ~shouldHandleNavigation(m, keypress)
        /\ m.state # StateSelectingVM
        /\ Turn(handleGlobalKeys(m, keypress), cmds)

\* the LoadProjects command in flight comes back with the projects
ProjectsLoaded ==
    \E i \in DOMAIN cmds :
        /\ cmds[i].kind = "LoadProjects"
        /\ \E listing \in ProjectListings :
              Turn(UpdateProjectsLoadedMsg(m, LoadProjects(Printed(listing))), Remove(cmds, i))

\* the LoadVMs command in flight comes back with the instances
VMsLoaded ==
    \E i \in DOMAIN cmds :
        /\ cmds[i].kind = "LoadVMs"
        /\ \E listing \in VMListings(cmds[i].project) :
              Turn(UpdateVMsLoadedMsg(m, LoadVMs(Printed(listing))), Remove(cmds, i))

\* a load command in flight comes back with an error
LoadFailed ==
    \E i \in DOMAIN cmds, output \in {ExecFailed, ParseFailed} :
        \/ /\ cmds[i].kind = "LoadProjects"
           /\ Turn(UpdateErrorMsg(m, LoadProjects(output)), Remove(cmds, i))
        \/ /\ cmds[i].kind = "LoadVMs"
           /\ Turn(UpdateErrorMsg(m, LoadVMs(output)), Remove(cmds, i))

\* tea.Quit comes back: the event loop returns the model and main goes on
QuitMsg ==
    /\ pc = "Run"
    /\ \E i \in DOMAIN cmds : cmds[i].kind = "Quit"
    /\ pc' = "handleSSHConnection"
    /\ cmds' = <<>>
    /\ UNCHANGED <<m, outcome>>

\* handleSSHConnection
handleSSHConnection ==
    /\ pc = "handleSSHConnection"
    /\ pc' = "exit"
    /\ IF m.state = StateReadyToConnect /\ ~m.quitting
       THEN \E launcher \in {"ok", "not found", "exec fails"} :
                LET r == ConnectSSH(m.selectedProject, m.selectedVM[1].Name,
                                    m.selectedVM[1].Zone, launcher)
                IN  outcome' = [exec |-> r.exec, code |-> IF r.err # <<>> THEN 1 ELSE 0]
       ELSE outcome' = outcome
    /\ UNCHANGED <<m, cmds>>

Next ==
    \/ WindowSize
    \/ KeyNavigation
    \/ KeyFiltering
    \/ KeyVMSelection
    \/ KeyGlobal
    \/ ProjectsLoaded
    \/ VMsLoaded
    \/ LoadFailed
    \/ QuitMsg
    \/ handleSSHConnection

Spec == Init /\ [][Next]_vars

(***************************************************************************)
(* Properties.  A property of a handler is stated on Update itself: in     *)
(* every reachable state, what Update returns for the message in question. *)
(***************************************************************************)
InFlight(kind) == \E i \in DOMAIN cmds : cmds[i].kind = kind

Enter == KeyMsg("enter", 0)

\* the state the controller is in for the user: quitting once the flag is set
ControllerState(mm) == IF mm.quitting THEN StateQuitting ELSE mm.state

Edges ==
    {<<StateLoadingProjects, StateSelectingProject>>,
     <<StateSelectingProject, StateLoadingVMs>>,
     <<StateLoadingVMs, StateSelectingVM>>,
     <<StateSelectingVM, StateSelectingProject>>,
     <<StateSelectingVM, StateReadyToConnect>>}

\* C1: every change of the controller state is one of the five edges
\* LoadingProjects->SelectingProject, SelectingProject->LoadingVMs,
\* LoadingVMs->SelectingVM, SelectingVM->SelectingProject,
\* SelectingVM->ReadyToConnect, or a move to quitting; the state field itself
\* only ever changes along the five edges.
C1_StateChangesFollowEdges ==
    [][ /\ ControllerState(m') # ControllerState(m)
            => \/ <<ControllerState(m), ControllerState(m')>> \in Edges
               \/ ControllerState(m') = StateQuitting
        /\ m'.state # m.state => <<m.state, m'.state>> \in Edges ]_vars

\* a run that took the edges up to ReadyToConnect, starting from the project load
C1_Witness ==
    /\ m.state = StateReadyToConnect
    /\ m.projects # <<>>
    /\ ~m.quitting

\* C2: when the project load fails in LoadingProjects the state stays
\* LoadingProjects and the error is stored; from then on the state and the
\* error stay, and every key other than q and ctrl+c changes nothing at all.
C2_Failure ==
    (m.state = StateLoadingProjects /\ InFlight("LoadProjects"))
        => \A output \in {ExecFailed, ParseFailed} :
              LET r == Update(m, LoadProjects(output))
              IN  /\ r.m.err # <<>>
                  /\ r.m = [m EXCEPT !.err = LoadProjects(output).Err]
                  /\ r.m.state = StateLoadingProjects
                  /\ r.cmd = <<>>

C2_QuitOnly ==
    (m.state = StateLoadingProjects /\ m.err # <<>>)
        => /\ \A keypress \in Keys \ {"q", "ctrl+c"} :
                Update(m, KeyMsg(keypress, 0)) = Return(m, <<>>)
           /\ \A keypress \in {"q", "ctrl+c"} :
                Update(m, KeyMsg(keypress, 0)) = Return([m EXCEPT !.quitting = TRUE], <<QuitCmd>>)

C2_ProjectLoadFailure ==
    /\ [](C2_Failure /\ C2_QuitOnly)
    /\ [][ (m.state = StateLoadingProjects /\ m.err # <<>>)
              => /\ m'.state = StateLoadingProjects
                 /\ m'.err = m.err
                 /\ m'.projects = m.projects
                 /\ m'.list.items = m.list.items
                 /\ m'.list.index = m.list.index ]_vars

\* the project load has failed and the loop still takes keys
C2_Witness ==
    /\ pc = "Run"
    /\ m.state = StateLoadingProjects
    /\ m.err = <<"failed to parse project data">>
    /\ ~m.quitting

\* C3: when the instance load fails in LoadingVMs the error is stored, no
\* request is issued, and q after the failure quits: the quitting flag is set
\* and tea.Quit is returned.
C3_VMLoadFailureThenQuit ==
    /\ (m.state = StateLoadingVMs /\ InFlight("LoadVMs"))
          => \A output \in {ExecFailed, ParseFailed} :
                LET r == Update(m, LoadVMs(output))
                IN  /\ r.m = [m EXCEPT !.err = LoadVMs(output).Err]
                    /\ r.cmd = <<>>
    /\ (m.state = StateLoadingVMs /\ m.err # <<>> /\ ~m.quitting)
          => Update(m, KeyMsg("q", 0)) = Return([m EXCEPT !.quitting = TRUE], <<QuitCmd>>)

\* C4: after a failed load, the view of every state that is not quitting is
\* the error message.
C4_ErrorIsShown ==
    (m.err # <<>> /\ ~m.quitting)
        => /\ View(m).screen = "Error"
           /\ Contains(View(m).text, m.err)

\* the rows of the records with lifecycle state ACTIVE: the k-th row is the
\* row of the k-th such record
ActivePositions(listing) == {i \in 1..Len(listing) : listing[i].Status = "ACTIVE"}

RowsOfActive(listing, items) ==
    /\ Len(items) = Cardinality(ActivePositions(listing))
    /\ \A i \in ActivePositions(listing) :
          items[Cardinality({j \in ActivePositions(listing) : j <= i})]
              = listing[i].ProjectID \o <<" ", "(">> \o listing[i].Name \o <<")">>

\* C5: a successful project load in LoadingProjects moves to SelectingProject
\* and the rows are, in source order, the records whose lifecycle state is
\* exactly "ACTIVE".
C5_ActiveProjectsBecomeRows ==
    (m.state = StateLoadingProjects /\ InFlight("LoadProjects"))
        => \A listing \in ProjectListings :
              LET r == Update(m, LoadProjects(Printed(listing)))
              IN  /\ r.m.state = StateSelectingProject
                  /\ RowsOfActive(listing, r.m.list.items)
                  /\ r.cmd = <<>>

\* the listing with an inactive project between two active ones is on screen
C5_Witness ==
    /\ m.state = StateSelectingProject
    /\ RowsOfActive(ProjectListingA, m.list.items)
    /\ Len(m.list.items) = 2
    /\ m.projects[2].ProjectID = P3

\* C6: in SelectingProject, enter on a highlighted row sets the selected
\* project to the identifier of that row's project, moves to LoadingVMs and
\* returns exactly one LoadVMs command for that identifier; with no row
\* highlighted enter changes nothing and returns no command.
C6_EnterSelectsProject ==
    (m.state = StateSelectingProject)
        => LET r == Update(m, Enter)
           IN  /\ m.list.items = ProjectItems(m.projects)
               /\ IF m.list.index < Len(m.projects)
                  THEN LET projectID == m.projects[m.list.index + 1].ProjectID
                       IN  /\ r.m.selectedProject = projectID
                           /\ r.m.state = StateLoadingVMs
                           /\ r.cmd = <<LoadVMsCmd(projectID)>>
                           /\ r.m = [m EXCEPT !.selectedProject = projectID,
                                              !.state = StateLoadingVMs,
                                              !.list.title = r.m.list.title]
                  ELSE r = Return(m, <<>>)

\* enter on the second row has put the load of the second project in flight
C6_Witness ==
    /\ m.state = StateLoadingVMs
    /\ m.selectedProject = P3
    /\ cmds = <<LoadVMsCmd(P3)>>
    /\ m.list.index = 1

\* the instance records a hierarchy holds, top-level and in groups
RECURSIVE RecordsOf(_)
RecordsOf(nodes) ==
    IF nodes = <<>> THEN <<>>
    ELSE (IF Head(nodes).Type = InstanceNode THEN Head(nodes).VM ELSE <<>>)
         \o RecordsOf(Head(nodes).Children) \o RecordsOf(Tail(nodes))

AllCollapsed(nodes) ==
    \A i \in 1..Len(nodes) : nodes[i].Type = GroupNode => ~nodes[i].IsExpanded

\* C7: a successful instance load moves to SelectingVM with filtering off and
\* the query empty; the hierarchy is built from the returned records alone
\* (the same whatever hierarchy was there before), holds every record once,
\* has every Group collapsed, and the displayed nodes are its top-level nodes,
\* one row each.
C7_LoadRebuildsHierarchy ==
    (m.state = StateLoadingVMs)
        => \A i \in DOMAIN cmds :
              cmds[i].kind = "LoadVMs"
                => \A listing \in VMListings(cmds[i].project) :
                      LET msg == LoadVMs(Printed(listing))
                          r == Update(m, msg)
                          fresh == Update([m EXCEPT !.treeManager = <<>>], msg)
                      IN  /\ r.m.state = StateSelectingVM
                          /\ ~r.m.filtering
                          /\ r.m.filterText = <<>>
                          /\ r.m.treeManager = fresh.m.treeManager
                          /\ Len(RecordsOf(r.m.treeManager)) = Len(listing)
                          /\ Range(RecordsOf(r.m.treeManager)) = Range(listing)
                          /\ AllCollapsed(r.m.treeManager)
                          /\ r.m.currentlyDisplayedNodes = r.m.treeManager
                          /\ Len(r.m.list.items) = Len(r.m.treeManager)
                          /\ r.cmd = <<>>

\* an instance load is in flight while the hierarchy of the project loaded
\* before still holds an expanded Group
C7_Witness ==
    /\ pc = "Run"
    /\ m.state = StateLoadingVMs
    /\ cmds = <<LoadVMsCmd(P3)>>
    /\ ~AllCollapsed(m.treeManager)

\* C8 (the handler): in SelectingVM, filtering or not, enter on a highlighted
\* Instance row records the instance that row shows, moves to ReadyToConnect
\* and returns tea.Quit, and changes nothing else.
C8_EnterOnInstance ==
    (/\ m.state = StateSelectingVM
     /\ m.list.index < Len(m.currentlyDisplayedNodes)
     /\ m.currentlyDisplayedNodes[m.list.index + 1].Type = InstanceNode)
        => LET node == m.currentlyDisplayedNodes[m.list.index + 1]
               r == Update(m, Enter)
           IN  /\ node.VM # <<>>
               /\ m.list.items[m.list.index + 1]
                     = Repeat("  ", node.Depth)
                       \o <<"[", GetAbbreviation(node.VM[1].Status), "]", " ">>
                       \o node.VM[1].Name
               /\ r = Return([m EXCEPT !.selectedVM = node.VM,
                                       !.state = StateReadyToConnect], <<QuitCmd>>)

\* C8: enter on a highlighted Instance row selects that row's instance, moves
\* to ReadyToConnect and ends the loop; no other step enters ReadyToConnect,
\* and in ReadyToConnect the selected instance is never nil.
C8_OnlyPathToReadyToConnect ==
    /\ [](C8_EnterOnInstance /\ (m.state = StateReadyToConnect => m.selectedVM # <<>>))
    /\ [][ (m'.state = StateReadyToConnect /\ m.state # StateReadyToConnect)
              => /\ m.state = StateSelectingVM
                 /\ getCurrentNode(m) # <<>>
                 /\ getCurrentNode(m)[1].Type = InstanceNode
                 /\ m'.selectedVM = getCurrentNode(m)[1].VM
                 /\ cmds' = cmds \o <<QuitCmd>> ]_vars

\* an instance picked from a filtered view was handed to gcloud
C8_Witness ==
    /\ pc = "exit"
    /\ m.state = StateReadyToConnect
    /\ m.filtering
    /\ m.filterText = <<"Q">>
    /\ m.selectedVM[1].Name = <<"Q", "2">>
    /\ outcome.exec # <<>>

\* C9: once the controller is in ReadyToConnect or quitting, no message
\* handled afterwards changes the state, the selected instance, the selected
\* project or the quitting flag; a loop that ended in ReadyToConnect hands the
\* selected instance off, and a loop that ended quitting does not.
C9_TerminalStatesAreFinal ==
    /\ [][ (m.state = StateReadyToConnect \/ m.quitting)
              => /\ m'.state = m.state
                 /\ m'.selectedVM = m.selectedVM
                 /\ m'.selectedProject = m.selectedProject
                 /\ m'.quitting = m.quitting ]_vars
    /\ []((pc = "exit" /\ m.state = StateReadyToConnect)
              => (outcome.exec # <<>> \/ outcome.code = 1))
    /\ []((pc = "exit" /\ m.quitting) => (outcome.exec = <<>> /\ outcome.code = 0))

\* the keys the statement counts as a letter, a digit, hyphen, underscore or space
PrintableKeys == {"j", "k", "q", "Q", "1", "-", "_", " "}

\* C10: in filtering mode a key that is a letter, a digit, hyphen, underscore
\* or space is appended to the end of the query and the projection is
\* filtered with the new query; every other key except backspace, enter and
\* esc leaves the query as it is.
C10_PrintableKeysAppend ==
    (m.state = StateSelectingVM /\ m.filtering)
        => \A keypress \in Keys :
              LET r == Update(m, KeyMsg(keypress, m.list.index))
              IN  IF keypress \in PrintableKeys
                  THEN /\ r.m.filterText = m.filterText \o <<keypress>>
                       /\ r.m.currentlyDisplayedNodes
                             = FlattenForDisplay(Filter(m.treeManager, r.m.filterText))
                  ELSE keypress \notin {"backspace", "enter", "esc"}
                          => r.m.filterText = m.filterText

\* C11: in SelectingVM filtering mode the help text names q as the key to
\* quit, and pressing q quits: the quitting flag is set and tea.Quit returned.
C11_QuitWhileFiltering ==
    (m.state = StateSelectingVM /\ m.filtering /\ ~m.quitting)
        => /\ Contains(View(m).text,
                <<"Press Enter to connect, Backspace to edit, Esc to clear filter, 'q' to quit">>)
           /\ LET r == Update(m, KeyMsg("q", 0))
              IN  /\ r.m.quitting
                  /\ r.cmd = <<QuitCmd>>

Esc == KeyMsg("esc", 0)

\* C12 (the handler): in filtering mode esc turns filtering off, empties the
\* query, leaves the canonical hierarchy as it is and displays its flattening.
C12_EscWhileFiltering ==
    (m.state = StateSelectingVM /\ m.filtering)
        => LET r == Update(m, Esc)
           IN  /\ ~r.m.filtering
               /\ r.m.filterText = <<>>
               /\ r.m.treeManager = m.treeManager
               /\ r.m.currentlyDisplayedNodes = FlattenForDisplay(m.treeManager)
               /\ r.m.state = StateSelectingVM
               /\ r.cmd = <<>>

\* what '/' starts from: with filtering off the displayed nodes are the
\* flattening of the canonical hierarchy, and '/' changes neither
C12_SlashKeepsProjection ==
    (m.state = StateSelectingVM /\ ~m.filtering)
        => LET r == Update(m, KeyMsg("/", 0))
           IN  /\ m.currentlyDisplayedNodes = FlattenForDisplay(m.treeManager)
               /\ r.m.filtering
               /\ r.m.filterText = <<>>
               /\ r.m.treeManager = m.treeManager
               /\ r.m.currentlyDisplayedNodes = m.currentlyDisplayedNodes

\* C12: esc in filtering mode turns filtering off, empties the query and
\* displays the flattening of the canonical hierarchy; while filtering is on
\* only enter changes the canonical hierarchy, so without an enter between '/'
\* and esc the hierarchy and the displayed nodes after esc are those before '/'.
C12_EscRestoresProjection ==
    /\ [](C12_EscWhileFiltering /\ C12_SlashKeepsProjection)
    /\ [][ (m.state = StateSelectingVM /\ m.filtering /\ m'.treeManager # m.treeManager)
              => m' = Update(m, Enter).m ]_vars

\* esc is about to discard a filtered view that hides rows, a Group being expanded
C12_Witness ==
    /\ pc = "Run"
    /\ m.state = StateSelectingVM /\ m.filtering
    /\ m.filterText = <<"Q">>
    /\ ~AllCollapsed(m.treeManager)
    /\ Len(m.currentlyDisplayedNodes) < Len(FlattenForDisplay(m.treeManager))
    /\ Update(m, Esc).m.currentlyDisplayedNodes = FlattenForDisplay(m.treeManager)

\* the list cursor brought to row n with home and n times down
RECURSIVE CursorAt(_, _)
CursorAt(mm, n) ==
    IF n = 0 THEN Update(mm, KeyMsg("home", 0)).m
    ELSE Update(CursorAt(mm, n - 1), KeyMsg("down", 0)).m

\* C13: in SelectingVM with filtering off, esc moves to SelectingProject,
\* clears the cached displayed nodes and shows the rows of the loaded projects
\* again, changes nothing else (the selected project stays) and returns no
\* command; enter on any project row afterwards returns one LoadVMs command
\* for that project, and the hierarchy after that load is the one built from
\* its records, whatever the old hierarchy was.
C13_EscBackToProjects ==
    (m.state = StateSelectingVM /\ ~m.filtering)
        => LET r == Update(m, Esc)
           IN  /\ r.cmd = <<>>
               /\ r.m.state = StateSelectingProject
               /\ r.m.currentlyDisplayedNodes = <<>>
               /\ r.m.list.items = ProjectItems(m.projects)
               /\ r.m.selectedProject = m.selectedProject
               /\ r.m = [m EXCEPT !.state = StateSelectingProject,
                                  !.currentlyDisplayedNodes = <<>>,
                                  !.list.items = ProjectItems(m.projects),
                                  !.list.title = r.m.list.title]
               /\ \A n \in 0..(Len(m.projects) - 1) :
                     LET e == Update(CursorAt(r.m, n), Enter)
                     IN  /\ e.cmd = <<LoadVMsCmd(m.projects[n + 1].ProjectID)>>
                         /\ e.m.state = StateLoadingVMs
                         /\ \A listing \in VMListings(e.cmd[1].project) :
                               LET l == Update(e.m, LoadVMs(Printed(listing)))
                               IN  /\ l.m.state = StateSelectingVM
                                   /\ l.m.treeManager = BuildFromVMs(listing)
                                   /\ l.m.currentlyDisplayedNodes
                                         = FlattenForDisplay(BuildFromVMs(listing))

\* back on the project rows, the hierarchy of the project left behind still
\* held with a Group expanded
C13_Witness ==
    /\ pc = "Run"
    /\ m.state = StateSelectingProject
    /\ m.selectedProject = P1
    /\ Len(m.list.items) = 2
    /\ m.currentlyDisplayedNodes = <<>>
    /\ ~AllCollapsed(m.treeManager)
    /\ cmds = <<>>

\* the hierarchy `after` is the hierarchy `before` with the expanded flag of
\* the one Group equal to `group` set to `expanded`, every other node as it was
OnlyFlagSet(before, after, group, expanded) ==
    \E i \in 1..Len(before) :
        /\ before[i] = group
        /\ \A j \in 1..Len(before) : j # i => before[j] # group
        /\ after = [before EXCEPT ![i].IsExpanded = expanded]

\* what right (expanded = TRUE) and left (expanded = FALSE) do in model mm
ExpandOrCollapse(mm, keypress, expanded) ==
    LET currentNode == getCurrentNode(mm)
        r == Update(mm, KeyMsg(keypress, 0))
    IN  /\ r.cmd = <<>>
        /\ IF /\ currentNode # <<>>
              /\ currentNode[1].Type = GroupNode
              /\ currentNode[1].IsExpanded # expanded
           THEN /\ OnlyFlagSet(mm.treeManager, r.m.treeManager, currentNode[1], expanded)
                /\ r.m.currentlyDisplayedNodes = FlattenForDisplay(r.m.treeManager)
                /\ r.m = [mm EXCEPT !.treeManager = r.m.treeManager,
                                    !.currentlyDisplayedNodes = r.m.currentlyDisplayedNodes,
                                    !.list.items = r.m.list.items]
           ELSE r.m = mm
        /\ Update(r.m, KeyMsg(keypress, 0)) = Return(r.m, <<>>)

\* C14: in SelectingVM with filtering off, right expands the highlighted Group
\* when it is collapsed and left collapses it when it is expanded, no other
\* node changing; on an Instance row, on no row, or on a Group already in the
\* target state they change nothing, and a second right (left) changes nothing.
C14_RightExpandsLeftCollapses ==
    (m.state = StateSelectingVM /\ ~m.filtering)
        => /\ ExpandOrCollapse(m, "right", TRUE)
           /\ ExpandOrCollapse(m, "left", FALSE)

\* right has expanded the second of two Groups, the first staying collapsed
C14_Witness ==
    /\ pc = "Run"
    /\ m.state = StateSelectingVM /\ ~m.filtering
    /\ Len(m.treeManager) = 3
    /\ ~m.treeManager[1].IsExpanded
    /\ m.treeManager[2].IsExpanded
    /\ m.list.index = 1
    /\ getCurrentNode(m) = <<m.treeManager[2]>>

\* the key message of the space bar: bubbletea names the key " "
Space == KeyMsg(" ", 0)

\* C15: in SelectingVM with filtering off, the space key on a highlighted
\* Group row flips that Group's expanded flag whatever it was, as enter does,
\* and a second press restores the hierarchy and the displayed nodes; on an
\* Instance row space changes nothing.
C15_SpaceAndEnterToggle ==
    (m.state = StateSelectingVM /\ ~m.filtering /\ getCurrentNode(m) # <<>>)
        => LET currentNode == getCurrentNode(m)[1]
               s == Update(m, Space)
               e == Update(m, Enter)
           IN  IF currentNode.Type = GroupNode
               THEN /\ OnlyFlagSet(m.treeManager, e.m.treeManager, currentNode,
                                   ~currentNode.IsExpanded)
                    /\ e.m.currentlyDisplayedNodes = FlattenForDisplay(e.m.treeManager)
                    /\ Update(e.m, Enter) = Return(m, <<>>)
                    /\ s = e
                    /\ Update(s.m, Space) = Return(m, <<>>)
               ELSE s = Return(m, <<>>)

\* C16: in SelectingVM the cached displayed nodes are the flattening of the
\* filtered canonical nodes when filtering is on with a non-empty query and
\* the flattening of the canonical nodes otherwise; the list has one row per
\* cached node, in order, showing that node; and getCurrentNode answers the
\* node of the highlighted row, or nothing when the index is past the rows.
C16_DisplayedNodesAreProjection ==
    (m.state = StateSelectingVM)
        => /\ m.currentlyDisplayedNodes
                 = IF m.filtering /\ m.filterText # <<>>
                   THEN FlattenForDisplay(Filter(m.treeManager, m.filterText))
                   ELSE FlattenForDisplay(m.treeManager)
           /\ Len(m.list.items) = Len(m.currentlyDisplayedNodes)
           /\ \A i \in 1..Len(m.list.items) :
                 m.list.items[i] = RenderNode(m.currentlyDisplayedNodes[i])
           /\ m.list.index >= 0
           /\ getCurrentNode(m)
                 = IF m.list.index < Len(m.currentlyDisplayedNodes)
                   THEN <<m.currentlyDisplayedNodes[m.list.index + 1]>>
                   ELSE <<>>
           /\ getCurrentNode(m) # <<>>
                 => RenderNode(getCurrentNode(m)[1]) = SelectedItem(m.list)[1]

\* a query has cut the view to three rows while the cursor stayed on the
\* fourth: no node is resolved
C16_Witness ==
    /\ pc = "Run"
    /\ m.state = StateSelectingVM /\ m.filtering
    /\ m.filterText = <<"1">>
    /\ Len(m.currentlyDisplayedNodes) = 3
    /\ Len(FlattenForDisplay(m.treeManager)) = 4
    /\ m.list.index = 3
    /\ getCurrentNode(m) = <<>>

\* the hierarchy `after` is `before` with the expanded flag of the one Group
\* named `name` flipped, every other node as it was
OnlyGroupFlipped(before, after, name) ==
    \E i \in 1..Len(before) :
        /\ before[i].Type = GroupNode /\ before[i].Name = name
        /\ \A j \in 1..Len(before) :
              (j # i /\ before[j].Type = GroupNode) => before[j].Name # name
        /\ after = [before EXCEPT ![i].IsExpanded = ~before[i].IsExpanded]

\* the displayed nodes show the Group named `name` with the flag `expanded`
ShowsGroup(nodes, name, expanded) ==
    \E k \in 1..Len(nodes) :
        /\ nodes[k].Type = GroupNode /\ nodes[k].Name = name
        /\ nodes[k].IsExpanded = expanded

\* the canonical flag of the Group named `name`
CanonicalFlag(nodes, name) ==
    \E i \in 1..Len(nodes) :
        nodes[i].Type = GroupNode /\ nodes[i].Name = name /\ nodes[i].IsExpanded

\* enter on a highlighted Group row in filtering mode flips the canonical
\* Group of that name and no other node, and after esc the unfiltered
\* projection shows the Group with the flipped flag
EnterFlipsCanonicalGroup(mm) ==
    LET group == getCurrentNode(mm)[1]
        r == Update(mm, Enter)
        back == Update(r.m, Esc)
    IN  /\ r.cmd = <<>>
        /\ OnlyGroupFlipped(mm.treeManager, r.m.treeManager, group.Name)
        /\ back.m.treeManager = r.m.treeManager
        /\ back.m.currentlyDisplayedNodes = FlattenForDisplay(r.m.treeManager)
        /\ ShowsGroup(back.m.currentlyDisplayedNodes, group.Name,
                      ~CanonicalFlag(mm.treeManager, group.Name))

OnGroupRowWhileFiltering(mm) ==
    /\ mm.state = StateSelectingVM /\ mm.filtering
    /\ getCurrentNode(mm) # <<>>
    /\ getCurrentNode(mm)[1].Type = GroupNode

\* C17 as stated: in filtering mode, enter on a highlighted Group row flips
\* the canonical Group of that name and no other node, after esc the
\* unfiltered projection shows the flipped flag, and the projection displayed
\* after the enter still shows the Group expanded.
C17_EnterOnFilteredGroup ==
    OnGroupRowWhileFiltering(m)
        => /\ EnterFlipsCanonicalGroup(m)
           /\ ShowsGroup(Update(m, Enter).m.currentlyDisplayedNodes,
                         getCurrentNode(m)[1].Name, TRUE)

\* C17, amended: as stated when the query is not empty; with an empty query
\* the displayed projection is the unfiltered one and shows the Group with
\* the flipped flag.
C17_EnterOnFilteredGroup_Amended ==
    OnGroupRowWhileFiltering(m)
        => /\ EnterFlipsCanonicalGroup(m)
           /\ LET r == Update(m, Enter)
                  name == getCurrentNode(m)[1].Name
              IN  IF m.filterText # <<>>
                  THEN /\ ShowsGroup(r.m.currentlyDisplayedNodes, name, TRUE)
                       /\ r.m.currentlyDisplayedNodes = m.currentlyDisplayedNodes
                  ELSE /\ r.m.currentlyDisplayedNodes = FlattenForDisplay(r.m.treeManager)
                       /\ ShowsGroup(r.m.currentlyDisplayedNodes, name,
                                     ~CanonicalFlag(m.treeManager, name))

\* enter on the Group row of a filtered view is about to expand the canonical
\* Group, which is collapsed while the filtered view shows it expanded
C17_Witness ==
    /\ pc = "Run"
    /\ m.state = StateSelectingVM /\ m.filtering
    /\ m.filterText = <<"Q">>
    /\ m.list.index = 0
    /\ ShowsGroup(m.currentlyDisplayedNodes, <<"q", "f">>, TRUE)
    /\ AllCollapsed(m.treeManager)
    /\ Update(m, Enter).m.treeManager[1].IsExpanded

LoadKinds == {"LoadProjects", "LoadVMs"}

LoadsIn(commands) == {i \in DOMAIN commands : commands[i].kind \in LoadKinds}

\* C18: at most one load is in flight; a project load is in flight only
\* while the state is LoadingProjects and an instance load only while the
\* state is LoadingVMs and for the selected project, so a completion is
\* delivered in the state that requested it; no key handled in a loading
\* state returns a load command, no message returns more than one command,
\* and no message returns a load command while a load is in flight.
C18_OneLoadOutstanding ==
    /\ Cardinality(LoadsIn(cmds)) <= 1
    /\ \A i \in DOMAIN cmds :
          /\ cmds[i].kind = "LoadProjects" => m.state = StateLoadingProjects
          /\ cmds[i].kind = "LoadVMs"
                => m.state = StateLoadingVMs /\ cmds[i].project = m.selectedProject
    /\ pc = "Run"
          => \A keypress \in Keys :
                LET r == Update(m, KeyMsg(keypress, m.list.index))
                IN  /\ Len(r.cmd) <= 1
                    /\ LoadsIn(r.cmd) # {}
                          => /\ LoadsIn(cmds) = {}
                             /\ m.state \notin {StateLoadingProjects, StateLoadingVMs}
                             /\ r.m.state = StateLoadingVMs
                             /\ r.cmd[1].project = r.m.selectedProject

\* the second instance load of a run is in flight
C18_Witness ==
    /\ pc = "Run"
    /\ m.state = StateLoadingVMs
    /\ m.selectedProject = P1
    /\ m.projects # <<>>
    /\ m.treeManager # <<>>
    /\ cmds = <<LoadVMsCmd(P1)>>

\* C19: a window size message, in any state, sets the list width to the
\* reported width and the list height to max(reported height - 7, 5), leaves
\* the rows of the list and every other field of the model as they are, and
\* returns no command.
C19_ResizeOnlySetsViewport ==
    (pc = "Run")
        => \A size \in WindowSizes :
              LET r == Update(m, WindowSizeMsg(size.Width, size.Height))
              IN  /\ r.cmd = <<>>
                  /\ r.m.list.width = size.Width
                  /\ r.m.list.height
                        = IF size.Height - 7 > 5 THEN size.Height - 7 ELSE 5
                  /\ r.m.list.items = m.list.items
                  /\ r.m.list.title = m.list.title
                  /\ r.m = [m EXCEPT !.list = r.m.list]

\* a terminal of ten rows was reported while a filtered view is on display:
\* the list height is the minimum
C19_Witness ==
    /\ pc = "Run"
    /\ m.state = StateSelectingVM /\ m.filtering
    /\ m.filterText # <<>>
    /\ m.list.width = 40
    /\ m.list.height = 5

(***************************************************************************)
(* The tree functions on their own: BuildFromVMs, ToggleNode, Filter and   *)
(* FlattenForDisplay applied to every listing of at most MaxRecords of the *)
(* instance records, every expansion of its Groups and every query of at   *)
(* most MaxFilterLen of the characters QueryChars.                         *)
(***************************************************************************)
\* most records in a listing
MaxRecords == 3

\* the instance records gcloud may print
Records == Range(VMListingA) \cup Range(VMListingB)

\* the listings: the records in any order, none twice
Listings ==
    UNION { {listing \in [1..n -> Records] :
                \A i, j \in 1..n : i # j => listing[i] # listing[j]} : n \in 0..MaxRecords }

\* the characters of a query: "f" is in a Group name only, "1" in instance
\* names only, "Q" in both when the case is ignored
QueryChars == {"f", "1", "Q"}

\* the program was started for a project; its instances are being loaded
TreeInit ==
    /\ m = newModel(P1)
    /\ cmds = InitCmd(newModel(P1))
    /\ pc = "Run"
    /\ outcome = [exec |-> <<>>, code |-> 0]

\* the load comes back with a listing: BuildFromVMs and updateVMList
TreeLoad ==
    /\ m.state = StateLoadingVMs
    /\ \E listing \in Listings :
          m' = Update(m, LoadVMs(Printed(listing))).m
    /\ cmds' = <<>>
    /\ UNCHANGED <<pc, outcome>>

\* ToggleNode on a Group, and updateVMList
TreeToggle ==
    /\ m.state = StateSelectingVM /\ ~m.filtering
    /\ \E i \in DOMAIN m.treeManager :
          /\ m.treeManager[i].Type = GroupNode
          /\ m' = ToggleCurrent(m, m.treeManager[i]).m
    /\ UNCHANGED <<cmds, pc, outcome>>

\* the query grows by one character, and updateVMList filters with it
TreeFilter ==
    /\ m.state = StateSelectingVM
    /\ Len(m.filterText) < MaxFilterLen
    /\ \E c \in QueryChars :
          m' = updateVMList([m EXCEPT !.filtering = TRUE,
                                      !.filterText = m.filterText \o <<c>>])
    /\ UNCHANGED <<cmds, pc, outcome>>

TreeNext == TreeLoad \/ TreeToggle \/ TreeFilter

TreeSpec == TreeInit /\ [][TreeNext]_vars

\* the name of a node contains the query, the case of letters ignored
NameHas(node, query) == Contains(ToLower(node.Name), ToLower(query))

\* the nodes Filter keeps: a Group that matches or has a matching child, an
\* ungrouped Instance that matches
KeptPositions(nodes, query) ==
    {i \in 1..Len(nodes) :
        \/ NameHas(nodes[i], query)
        \/ /\ nodes[i].Type = GroupNode
           /\ \E k \in 1..Len(nodes[i].Children) : NameHas(nodes[i].Children[k], query)}

\* `kept` is the subsequence of `all` at the positions `positions`
IsSubsequenceAt(kept, all, positions) ==
    /\ Len(kept) = Cardinality(positions)
    /\ \A i \in positions : kept[Cardinality({j \in positions : j <= i})] = all[i]

\* the node Filter returns for the kept node `node`
FilteredAs(result, node, query) ==
    IF node.Type = InstanceNode THEN result = node
    ELSE /\ result.Type = GroupNode
         /\ result.Name = node.Name
         /\ result.GroupName = node.GroupName
         /\ result.Depth = node.Depth
         /\ result.IsExpanded
         /\ IF NameHas(node, query)
            THEN result.Children = node.Children
            ELSE IsSubsequenceAt(result.Children, node.Children,
                    {k \in 1..Len(node.Children) : NameHas(node.Children[k], query)})

\* C20: for a non-empty query Filter returns, in input order, one node for
\* every Group whose name contains the query or that has a child whose name
\* contains it, and for every ungrouped Instance whose name contains it, and
\* no other node; a Group whose name matches has all its children, any other
\* Group only the matching children in their order; every returned Group is
\* expanded; and Filter with the empty query returns the nodes themselves.
C20_FilterRule ==
    /\ Filter(m.treeManager, <<>>) = m.treeManager
    /\ m.filterText # <<>>
          => LET nodes == m.treeManager
                 query == m.filterText
                 result == Filter(nodes, query)
                 kept == KeptPositions(nodes, query)
             IN  /\ Len(result) = Cardinality(kept)
                 /\ \A i \in kept :
                       FilteredAs(result[Cardinality({j \in kept : j <= i})], nodes[i], query)
                 /\ m.currentlyDisplayedNodes = FlattenForDisplay(result)

\* the query "f" is in the name of the collapsed Group qf and of none of its
\* two instances; the other Group and its instance do not match
C20_Witness ==
    /\ m.filterText = <<"f">>
    /\ Len(m.treeManager) = 2
    /\ AllCollapsed(m.treeManager)
    /\ Len(m.treeManager[1].Children) = 2
    /\ Len(Filter(m.treeManager, m.filterText)) = 1
    /\ Len(m.currentlyDisplayedNodes) = 3

\* C21: filtering the result of Filter again with the same query gives that
\* result: the same nodes in the same order, each Group with the same
\* children and the same expanded flag.
C21_FilterIdempotent ==
    LET once == Filter(m.treeManager, m.filterText)
        twice == Filter(once, m.filterText)
    IN  /\ Len(twice) = Len(once)
        /\ \A i \in 1..Len(once) :
              /\ twice[i].Type = once[i].Type
              /\ twice[i].Name = once[i].Name
              /\ twice[i].Children = once[i].Children
              /\ twice[i].IsExpanded = once[i].IsExpanded
        /\ twice = once

\* the query "1" is in the name of one of the two instances of a collapsed
\* Group and not in the Group's name: the derived Group holds that instance
\* alone and is expanded
C21_Witness ==
    /\ m.filterText = <<"1">>
    /\ Len(m.treeManager) >= 2
    /\ m.treeManager[1].Type = GroupNode
    /\ ~m.treeManager[1].IsExpanded
    /\ Len(m.treeManager[1].Children) = 2
    /\ LET once == Filter(m.treeManager, m.filterText)
       IN  /\ Len(once[1].Children) = 1
           /\ once[1].IsExpanded
           /\ Filter(once, m.filterText) = once

\* a key of each kind of query edit: append, delete, discard
QueryEditKeys == {"Q", "backspace", "ctrl+h", "esc"}

\* C22 (the handlers): in SelectingVM, updateVMList leaves the canonical nodes
\* as they are, whatever the query, and so does every edit of the query
C22_ProjectionKeepsHierarchy ==
    (m.state = StateSelectingVM)
        => /\ updateVMList(m).treeManager = m.treeManager
           /\ updateVMList([m EXCEPT !.filtering = TRUE, !.filterText = <<"Q">>]).treeManager
                 = m.treeManager
           /\ m.filtering
                 => \A keypress \in QueryEditKeys :
                       Update(m, KeyMsg(keypress, 0)).m.treeManager = m.treeManager

\* C22: filtering and projecting never change the canonical hierarchy; a step
\* (any key, resize or completion) that changes it is either a completed
\* instance load, which replaces it, or right, left, space or enter on a
\* highlighted Group row, which flips the expanded flag of the canonical
\* Group of that name and changes no other node.
C22_OnlyTogglesChangeHierarchy ==
    /\ []C22_ProjectionKeepsHierarchy
    /\ [][ (m'.treeManager # m.treeManager)
              => \/ m.state = StateLoadingVMs /\ InFlight("LoadVMs")
                 \/ /\ m.state = StateSelectingVM
                    /\ getCurrentNode(m) # <<>>
                    /\ getCurrentNode(m)[1].Type = GroupNode
                    /\ \E keypress \in {"right", "left", " ", "enter"} :
                          m' = Update(m, KeyMsg(keypress, 0)).m
                    /\ OnlyGroupFlipped(m.treeManager, m'.treeManager,
                                        getCurrentNode(m)[1].Name) ]_vars

\* a query of two characters that matches nothing is on display while a
\* canonical Group is expanded
C22_Witness ==
    /\ pc = "Run"
    /\ m.state = StateSelectingVM /\ m.filtering
    /\ Len(m.filterText) = 2
    /\ m.currentlyDisplayedNodes = <<>>
    /\ ~AllCollapsed(m.treeManager)

\* the group names of a listing
GroupNamesOf(listing) == {GetInstanceGroup(listing[i]) : i \in 1..Len(listing)} \ {<<>>}

\* the positions of the records of group `group` (<<>>: the ungrouped ones)
PositionsOf(listing, group) ==
    {i \in 1..Len(listing) : GetInstanceGroup(listing[i]) = group}

\* `children` are Instance nodes at `depth` for the records of `listing` at
\* `positions`, in source order
InstanceNodesFor(children, listing, positions, group, depth) ==
    /\ Len(children) = Cardinality(positions)
    /\ \A i \in positions :
          LET child == children[Cardinality({j \in positions : j <= i})]
          IN  /\ child.Type = InstanceNode
              /\ child.VM = <<listing[i]>>
              /\ child.Name = listing[i].Name
              /\ child.GroupName = group
              /\ child.Depth = depth
              /\ child.Children = <<>>

\* what BuildFromVMs makes of a listing
BuildRule(listing, nodes) ==
    LET groups == Cardinality(GroupNamesOf(listing))
    IN  /\ Len(nodes) = groups + Cardinality(PositionsOf(listing, <<>>))
        /\ \A i \in 1..groups :
              /\ nodes[i].Type = GroupNode
              /\ nodes[i].Name \in GroupNamesOf(listing)
              /\ nodes[i].Depth = 0
              /\ ~nodes[i].IsExpanded
              /\ i < groups => StringLess(nodes[i].Name, nodes[i + 1].Name)
              /\ InstanceNodesFor(nodes[i].Children, listing,
                                  PositionsOf(listing, nodes[i].Name), nodes[i].Name, 1)
        /\ InstanceNodesFor(SubSeq(nodes, groups + 1, Len(nodes)), listing,
                            PositionsOf(listing, <<>>), <<>>, 0)
        /\ Len(RecordsOf(nodes)) = Len(listing)
        /\ Range(RecordsOf(nodes)) = Range(listing)

\* how many rows the children of expanded Groups take before top-level node i
RowsOfChildrenBefore(nodes, i) ==
    Cardinality({jk \in (1..(i - 1)) \X (1..MaxRecords + 1) :
                    /\ nodes[jk[1]].Type = GroupNode /\ nodes[jk[1]].IsExpanded
                    /\ jk[2] <= Len(nodes[jk[1]].Children)})

\* what FlattenForDisplay makes of a hierarchy: every top-level node in
\* order, the children of a Group right after it iff it is expanded
FlattenRule(nodes, flat) ==
    /\ Len(flat) = Len(nodes) + RowsOfChildrenBefore(nodes, Len(nodes) + 1)
    /\ \A i \in 1..Len(nodes) :
          LET row == i + RowsOfChildrenBefore(nodes, i)
          IN  /\ flat[row] = nodes[i]
              /\ (nodes[i].Type = GroupNode /\ nodes[i].IsExpanded)
                    => \A k \in 1..Len(nodes[i].Children) :
                          flat[row + k] = nodes[i].Children[k]

\* C23: BuildFromVMs makes one Group per group name, the Groups first and in
\* ascending order of name whatever the order of the records, each holding
\* the records of its group in source order at depth 1, then one Instance at
\* depth 0 per ungrouped record in source order, every record once; and
\* FlattenForDisplay emits every top-level node in order with the children
\* of a Group right after it iff the Group is expanded.
C23_BuildAndFlatten ==
    /\ m.state = StateLoadingVMs
          => \A listing \in Listings :
                /\ BuildRule(listing, BuildFromVMs(listing))
                /\ Update(m, LoadVMs(Printed(listing))).m.treeManager = BuildFromVMs(listing)
    /\ m.state = StateSelectingVM
          => FlattenRule(m.treeManager, FlattenForDisplay(m.treeManager))

\* the listing x1 (group z), u1 (no group), x2 (group a) was built, Group a
\* first, and Group z is expanded
C23_Witness ==
    /\ m.state = StateSelectingVM
    /\ m.treeManager = [BuildFromVMs(VMListingB) EXCEPT ![2].IsExpanded = TRUE]
    /\ m.treeManager[1].Name = <<"a">>
    /\ Len(FlattenForDisplay(m.treeManager)) = 4
    /\ m.filterText = <<>>

\* this step is the completion of the project load in flight
ProjectLoadCompletes ==
    /\ m.state = StateLoadingProjects
    /\ InFlight("LoadProjects")
    /\ \E listing \in ProjectListings :
          m' = Update(m, LoadProjects(Printed(listing))).m

\* C24: SelectingProject is entered either by the completion of a project
\* load or, by esc from SelectingVM, with the projects of a completed load
\* held (m.projects is written by the ProjectsLoadedMsg case alone, and a
\* load that returned no project leaves no row to go on from); and in
\* SelectingProject the rows are the rows of the projects held.
C24_ProjectsLoadedBeforeSelecting ==
    /\ [][ (m'.state = StateSelectingProject /\ m.state # StateSelectingProject)
              => \/ ProjectLoadCompletes
                 \/ /\ m.state = StateSelectingVM
                    /\ m.projects # <<>>
                    /\ m'.projects = m.projects ]_vars
    /\ [](m.state = StateSelectingProject => m.list.items = ProjectItems(m.projects))

\* main has made the session hand-off, or tried to: handleSSHConnection ran
\* with the state ReadyToConnect and the model not quitting
HandOffPerformed ==
    pc = "exit" /\ m.state = StateReadyToConnect /\ ~m.quitting

\* C25 (the hand-off): the instance handed off is a record of the hierarchy
\* held, the hierarchy holds the records of one listing of the selected
\* project, and the arguments of gcloud are that instance and that project.
C25_HandOffFromHierarchy ==
    HandOffPerformed
        => /\ m.selectedVM # <<>>
           /\ m.selectedVM[1] \in Range(RecordsOf(m.treeManager))
           /\ \E listing \in VMListings(m.selectedProject) :
                 /\ m.selectedVM[1] \in Range(listing)
                 /\ Range(RecordsOf(m.treeManager)) = Range(listing)
           /\ outcome.exec # <<>>
                 => /\ outcome.exec[4] = m.selectedVM[1].Name
                    /\ outcome.exec[6] = m.selectedProject

\* C25: the instance handed off is a record of the most recent completed
\* instance load, and that load was requested for the project handed off:
\* a completed load was requested for the selected project and replaces the
\* hierarchy by the one built from its records; from then until the next load
\* the records of the hierarchy and the selected project stay; and the
\* hand-off takes the instance from that hierarchy and the selected project.
C25_HandOffOfLoadedInstance ==
    /\ []C25_HandOffFromHierarchy
    /\ [][ (m.state = StateLoadingVMs /\ m'.state = StateSelectingVM)
              => /\ \E i \in DOMAIN cmds : cmds[i] = LoadVMsCmd(m.selectedProject)
                 /\ \E listing \in VMListings(m.selectedProject) :
                       m'.treeManager = BuildFromVMs(listing)
                 /\ m'.selectedProject = m.selectedProject ]_vars
    /\ [][ (m.state \in {StateSelectingVM, StateReadyToConnect})
              => \/ /\ m'.state \in {StateSelectingVM, StateReadyToConnect}
                    /\ RecordsOf(m'.treeManager) = RecordsOf(m.treeManager)
                    /\ m'.selectedProject = m.selectedProject
                 \/ m'.state = StateSelectingProject /\ m'.selectedVM = <<>> ]_vars

\* an instance of the second project, picked from a filtered view, was
\* handed to gcloud
C25_Witness ==
    /\ HandOffPerformed
    /\ outcome.exec # <<>>
    /\ m.selectedProject = P3
    /\ m.filtering /\ m.filterText = <<"1">>
    /\ m.selectedVM[1].Name = <<"x", "1">>

=============================================================================
